---- MODULE Spec2Model ----
(***************************************************************************)
(* Gacha-Neon: the ball-draw state machine of src/index.tsx.               *)
(*                                                                         *)
(* The state is the React state of App (mode, gameState, fate, spinCount,  *)
(* the rosters, the gift exchange, prizeColor, resetTrigger) and of        *)
(* GameScene (balls, prizeVisible), plus the setTimeout callbacks that are *)
(* pending.  One action is one event handler or timer callback together    *)
(* with the render and the useEffect bodies that the handler's state       *)
(* updates trigger (React commits them before the next event is handled).  *)
(***************************************************************************)
EXTENDS Integers, Sequences, FiniteSets, TLC

VARIABLES
    mode,            \* App: 'FATE' | 'SQUAD' | 'GIFT'
    gameState,       \* App: 'IDLE' | 'SPINNING' | 'RESULT'
    fate,            \* App: result text shown in the modal, or null
    spinCount,       \* App: spin counter, passed down as spinSignal
    fates,           \* App: master fate list
    squadList,       \* App: master squad roster
    activeSquad,     \* App: in-play squad roster
    exchangeOrder,   \* App: gift permutation ([] = not started)
    exchangeIndex,   \* App: gift cursor
    prizeColor,      \* App: colour of the prize ball
    resetTrigger,    \* App: counter whose change regenerates the balls
    balls,           \* GameScene: live entities, in array order
    prizeVisible,    \* GameScene: the 1.5s timer of a spin has fired
    pendingPrize,    \* number of pending 1.5s timers (spin-signal effect)
    pendingReveal,   \* number of pending 2s timers (handleSpin)
    nextId,          \* source of fresh identifiers (uuidv4)
    mounted,         \* the root rendered by createRoot has not been torn down
    claimCount       \* history: calls of onPrizeClaim so far

vars == <<mode, gameState, fate, spinCount, fates, squadList, activeSquad,
          exchangeOrder, exchangeIndex, prizeColor, resetTrigger, balls,
          prizeVisible, pendingPrize, pendingReveal, nextId, mounted,
          claimCount>>

appVars == <<mode, gameState, fate, spinCount, fates, squadList, activeSquad,
             exchangeOrder, exchangeIndex, resetTrigger>>

----------------------------------------------------------------------------
(* Bounds of the model.                                                    *)

\* names the editor can type into the squad list
NumNames == 2
\* longest squad roster the editor produces
MaxRoster == 2
\* longest fate list the editor produces
MaxFates == 1
\* colours of the palette that new balls are sampled from
NumColors == 2
\* spawn positions that new balls are sampled from
NumPositions == 1
\* accepted spins
MaxSpins == 3
\* changes of resetTrigger
MaxResets == 2
\* identifiers uuidv4 hands out after the initial population
ExtraIds == 3
\* ball count of Fate mode (35 in the source, scaled down)
FateBallCount == 3
\* longest roster of a gift exchange that is run to its end
GiftRoster == 3

----------------------------------------------------------------------------
(* Values.                                                                 *)

Null == "null"
NO_TARGETS == "NO TARGETS"

PlayerNames == <<"Player One", "Player Two", "Player Three", "Player Four",
                 "Player Five">>
Names == {PlayerNames[i] : i \in 1..NumNames}
DEFAULT_SQUAD == [i \in 1..NumNames |-> PlayerNames[i]]
\* names typed into the squad list for a gift exchange
GiftNames == {PlayerNames[i] : i \in 1..GiftRoster}

FateTexts == {"SSR Pull Incoming"}
DEFAULT_FATES == <<"SSR Pull Incoming">>

colors == <<"neonBlue", "neonPink", "neonGold", "neonGreen", "neonPurple">>
Palette == {colors[i] : i \in 1..NumColors}
Positions == 1..NumPositions

MaxId == FateBallCount + ExtraIds

SeqsUpTo(S, n) == UNION {[1..k -> S] : k \in 0..n}

Min(a, b) == IF a < b THEN a ELSE b
Max(a, b) == IF a > b THEN a ELSE b

----------------------------------------------------------------------------
(* Pure functions of App.                                                  *)

\* Array.prototype.filter(p => p !== text)
RECURSIVE FilterOut(_, _)
FilterOut(s, text) ==
    IF s = <<>> THEN <<>>
    ELSE IF Head(s) = text THEN FilterOut(Tail(s), text)
         ELSE <<Head(s)>> \o FilterOut(Tail(s), text)

\* the swap that overwrites arr[i] and loses its old value
Swap_Overwrite(arr, i, j) == [arr EXCEPT ![i] = arr[j]]
Swap(arr, i, j) == [arr EXCEPT ![i] = arr[j], ![j] = arr[i]]

\* shuffleArray: for i = len-1 down to 1 (0-based), j uniform in 0..i, swap.
\* The set of arrays the loop can return, i being the 1-based position.
RECURSIVE ShuffleFrom(_, _)
ShuffleFrom(arr, i) ==
    IF i <= 1 THEN {arr}
    ELSE UNION {ShuffleFrom(Swap(arr, i, j), i - 1) : j \in 1..i}

shuffleArray(array) == ShuffleFrom(array, Len(array))

\* the count without the anticipation of the pending removal in RESULT
currentBallCount_NoAnticipation(m, active, gs, order, index, squad) ==
    IF m = "FATE" THEN FateBallCount
    ELSE IF m = "SQUAD" THEN Len(active)
    ELSE IF Len(order) = 0 THEN Len(squad) ELSE Len(order) - index

currentBallCount(m, active, gs, order, index, squad) ==
    IF m = "FATE" THEN FateBallCount
    ELSE IF m = "SQUAD" THEN
        IF gs = "RESULT" /\ Len(active) > 0 THEN Len(active) - 1
        ELSE Len(active)
    ELSE
        IF Len(order) = 0 THEN Len(squad)
        ELSE IF gs = "RESULT" /\ Len(order) - index > 0
             THEN Len(order) - index - 1
             ELSE Len(order) - index

\* the fixed result taken at the cursor itself: the giver
fixedResult_Self ==
    IF mode = "GIFT" /\ Len(exchangeOrder) > 0
    THEN exchangeOrder[(exchangeIndex % Len(exchangeOrder)) + 1]
    ELSE Null

fixedResult ==
    IF mode = "GIFT" /\ Len(exchangeOrder) > 0
    THEN exchangeOrder[((exchangeIndex + 1) % Len(exchangeOrder)) + 1]
    ELSE Null

currentGiver ==
    IF mode = "GIFT" /\ Len(exchangeOrder) > 0
       /\ exchangeIndex < Len(exchangeOrder)
    THEN exchangeOrder[exchangeIndex + 1]
    ELSE Null

\* prop fateList of GameScene
fateList == IF mode = "FATE" THEN fates ELSE activeSquad

\* prop ballCount of GameScene in the current and in the next render
ballCount ==
    currentBallCount(mode, activeSquad, gameState, exchangeOrder,
                     exchangeIndex, squadList)
ballCountNext ==
    currentBallCount(mode', activeSquad', gameState', exchangeOrder',
                     exchangeIndex', squadList')

----------------------------------------------------------------------------
(* GameScene: the ball effects.                                            *)

\* k newly sampled balls with the identifiers first, first+1, ...
NewBalls(k, first) ==
    IF k <= 0 THEN {<<>>}
    ELSE {[i \in 1..k |-> [id |-> first + i - 1, pos |-> a[i][1],
                           color |-> a[i][2]]] :
             a \in [1..k -> Positions \X Palette]}

\* Array.prototype.slice(0, n), a negative n counting from the end
SliceTo(s, n) ==
    LET end == IF n < 0 THEN Max(Len(s) + n, 0) ELSE Min(n, Len(s))
    IN  SubSeq(s, 1, end)

\* init effect ([resetTrigger]): a whole new array of count balls
InitBalls(count) == NewBalls(count, nextId)

\* SyncBalls with a shrink that cuts from the head instead of the tail
SyncBalls_DropHead(prev, count) ==
    IF Len(prev) = count THEN {prev}
    ELSE IF count < Len(prev)
         THEN {SubSeq(prev, Len(prev) - Max(count, 0) + 1, Len(prev))}
         ELSE {prev \o nb : nb \in NewBalls(count - Len(prev), nextId)}

\* sync effect ([ballCount, ...]): the updater given to setBalls
SyncBalls(prev, count) ==
    IF Len(prev) = count THEN {prev}
    ELSE IF count < Len(prev) THEN {SliceTo(prev, count)}
    ELSE {prev \o nb : nb \in NewBalls(count - Len(prev), nextId)}

\* GameSceneEffects with an init effect that also runs when ballCount changes
GameSceneEffects_InitOnCount ==
    /\ LET afterInit == IF resetTrigger' # resetTrigger
                           \/ ballCountNext # ballCount
                        THEN InitBalls(ballCountNext) ELSE {balls}
       IN  \E b2 \in afterInit :
               /\ balls' = b2
               /\ nextId' = nextId
                     + Cardinality({i \in 1..Len(b2) : b2[i].id >= nextId})
               /\ nextId' <= MaxId + 1
    /\ prizeColor' =
         IF gameState' # gameState /\ gameState' = "SPINNING" /\ Len(balls) > 0
         THEN balls[Len(balls)].color
         ELSE prizeColor

\* The effects of GameScene that follow a render of App: the init effect
\* when resetTrigger changed, the sync effect when ballCount changed, the
\* notify-parent effect when gameState changed.
GameSceneEffects ==
    /\ LET afterInit == IF resetTrigger' # resetTrigger
                        THEN InitBalls(ballCountNext) ELSE {balls}
       IN  \E b1 \in afterInit :
             \E b2 \in (IF ballCountNext # ballCount
                        THEN SyncBalls(b1, ballCountNext) ELSE {b1}) :
               /\ balls' = b2
               /\ nextId' = nextId
                     + Cardinality({i \in 1..Len(b2) : b2[i].id >= nextId})
               /\ nextId' <= MaxId + 1
    /\ prizeColor' =
         IF gameState' # gameState /\ gameState' = "SPINNING" /\ Len(balls) > 0
         THEN balls[Len(balls)].color
         ELSE prizeColor

----------------------------------------------------------------------------
(* Initial state: App's useState defaults and GameScene after its mount    *)
(* effects (init effect with ballCount = the Fate count).                  *)

Init ==
    /\ mode = "FATE"
    /\ gameState = "IDLE"
    /\ fate = Null
    /\ spinCount = 0
    /\ fates = DEFAULT_FATES
    /\ squadList = DEFAULT_SQUAD
    /\ activeSquad = DEFAULT_SQUAD
    /\ exchangeOrder = <<>>
    /\ exchangeIndex = 0
    /\ prizeColor = "neonGold"
    /\ resetTrigger = 0
    /\ balls \in NewBalls(FateBallCount, 1)
    /\ prizeVisible = FALSE
    /\ pendingPrize = 0
    /\ pendingReveal = 0
    /\ nextId = FateBallCount + 1
    /\ mounted = TRUE
    /\ claimCount = 0

----------------------------------------------------------------------------
(* What the page lets the user click.                                      *)

\* The result modal (rendered while fate is set) covers the controls, the
\* action button and the canvas; a click on it only dismisses it.  A page
\* whose root was torn down renders nothing to click.
ControlsReachable == mounted /\ fate = Null

\* The action button is one of RELOAD SQUAD, START EXCHANGE, RESET EXCHANGE
\* and the spin button.
ShowsReloadSquad == mode = "SQUAD" /\ Len(activeSquad) = 0
ShowsStartExchange ==
    ~ShowsReloadSquad /\ mode = "GIFT" /\ Len(exchangeOrder) = 0
ShowsResetExchange ==
    /\ ~ShowsReloadSquad /\ mode = "GIFT" /\ Len(exchangeOrder) # 0
    /\ exchangeIndex >= Len(exchangeOrder)
ShowsSpin == ~ShowsReloadSquad /\ ~ShowsStartExchange /\ ~ShowsResetExchange
\* the spin button without its disabled attribute
SpinButtonDisabled_Never == FALSE
SpinButtonDisabled == gameState # "IDLE"

\* a prize ball that is rendered in every phase, visible or not
PrizeShown_Always == TRUE
\* The prize ball is rendered
PrizeShown == prizeVisible /\ gameState = "RESULT"

----------------------------------------------------------------------------
(* Handlers of App.                                                        *)

\* the rotation with Squad and Gift exchanged
nextMode_Reversed(m) ==
    IF m = "FATE" THEN "GIFT" ELSE IF m = "GIFT" THEN "SQUAD" ELSE "FATE"
\* newMode of toggleMode
nextMode(m) ==
    IF m = "FATE" THEN "SQUAD" ELSE IF m = "SQUAD" THEN "GIFT" ELSE "FATE"

\* toggleMode reloading the active roster on every entry into Squad
toggleMode_AlwaysReload ==
    /\ ControlsReachable
    /\ LET newMode == nextMode(mode)
       IN  /\ mode' = newMode
           /\ activeSquad' = IF newMode = "SQUAD" THEN squadList
                             ELSE activeSquad
           /\ exchangeOrder' = IF newMode = "GIFT" THEN <<>> ELSE exchangeOrder
           /\ exchangeIndex' = IF newMode = "GIFT" THEN 0 ELSE exchangeIndex
    /\ UNCHANGED <<mounted, claimCount>>
    /\ UNCHANGED <<gameState, fate, spinCount, fates, squadList, resetTrigger,
                   prizeVisible, pendingPrize, pendingReveal>>
    /\ GameSceneEffects

\* toggleMode keeping the exchange on entry into Gift
toggleMode_KeepExchange ==
    /\ ControlsReachable
    /\ LET newMode == nextMode(mode)
       IN  /\ mode' = newMode
           /\ activeSquad' = IF newMode = "SQUAD" /\ Len(activeSquad) = 0
                             THEN squadList ELSE activeSquad
           /\ exchangeOrder' = exchangeOrder
           /\ exchangeIndex' = exchangeIndex
    /\ UNCHANGED <<mounted, claimCount>>
    /\ UNCHANGED <<gameState, fate, spinCount, fates, squadList, resetTrigger,
                   prizeVisible, pendingPrize, pendingReveal>>
    /\ GameSceneEffects

toggleMode ==
    /\ ControlsReachable
    /\ LET newMode == nextMode(mode)
       IN  /\ mode' = newMode
           /\ activeSquad' = IF newMode = "SQUAD" /\ Len(activeSquad) = 0
                             THEN squadList ELSE activeSquad
           /\ exchangeOrder' = IF newMode = "GIFT" THEN <<>> ELSE exchangeOrder
           /\ exchangeIndex' = IF newMode = "GIFT" THEN 0 ELSE exchangeIndex
    /\ UNCHANGED <<mounted, claimCount>>
    /\ UNCHANGED <<gameState, fate, spinCount, fates, squadList, resetTrigger,
                   prizeVisible, pendingPrize, pendingReveal>>
    /\ GameSceneEffects

\* handleReloadSquad without the bump of resetTrigger
handleReloadSquad_NoRespawn ==
    /\ ControlsReachable
    /\ ShowsReloadSquad
    /\ activeSquad' = squadList
    /\ UNCHANGED <<mounted, claimCount>>
    /\ UNCHANGED <<mode, gameState, fate, spinCount, fates, squadList,
                   exchangeOrder, exchangeIndex, resetTrigger, prizeVisible,
                   pendingPrize, pendingReveal>>
    /\ GameSceneEffects

handleReloadSquad ==
    /\ ControlsReachable
    /\ ShowsReloadSquad
    /\ resetTrigger < MaxResets
    /\ activeSquad' = squadList
    /\ resetTrigger' = resetTrigger + 1
    /\ UNCHANGED <<mounted, claimCount>>
    /\ UNCHANGED <<mode, gameState, fate, spinCount, fates, squadList,
                   exchangeOrder, exchangeIndex, prizeVisible, pendingPrize,
                   pendingReveal>>
    /\ GameSceneEffects

\* the validation with a bound of one participant
StartGiftRefused_BelowOne == Len(squadList) < 1
\* if (squadList.length < 2) { alert(...); return; }
StartGiftRefused == Len(squadList) < 2

handleStartGift ==
    /\ ControlsReachable
    /\ ShowsStartExchange
    /\ IF StartGiftRefused
       THEN \* alert, return
            UNCHANGED vars
       ELSE /\ resetTrigger < MaxResets
            /\ exchangeOrder' \in shuffleArray(squadList)
            /\ exchangeIndex' = 0
            /\ gameState' = "IDLE"
            /\ resetTrigger' = resetTrigger + 1
            /\ UNCHANGED <<mounted, claimCount>>
            /\ UNCHANGED <<mode, fate, spinCount, fates, squadList,
                           activeSquad, prizeVisible, pendingPrize,
                           pendingReveal>>
            /\ GameSceneEffects

handleResetGift ==
    /\ ControlsReachable
    /\ ShowsResetExchange
    /\ exchangeOrder' = <<>>
    /\ exchangeIndex' = 0
    /\ gameState' = "IDLE"
    /\ UNCHANGED <<mounted, claimCount>>
    /\ UNCHANGED <<mode, fate, spinCount, fates, squadList, activeSquad,
                   resetTrigger, prizeVisible, pendingPrize, pendingReveal>>
    /\ GameSceneEffects

\* handleSpin, with the spin-signal effect of GameScene that the change of
\* spinCount triggers
handleSpin ==
    IF gameState = "SPINNING"
    THEN UNCHANGED vars
    ELSE /\ spinCount < MaxSpins
         /\ gameState' = "SPINNING"
         /\ fate' = Null
         /\ spinCount' = spinCount + 1
         /\ pendingReveal' = pendingReveal + 1
         /\ prizeVisible' = FALSE
         /\ pendingPrize' = pendingPrize + 1
         /\ UNCHANGED <<mounted, claimCount>>
         /\ UNCHANGED <<mode, fates, squadList, activeSquad, exchangeOrder,
                        exchangeIndex, resetTrigger>>
         /\ GameSceneEffects

\* A click on the spin button: a disabled button dispatches no click
ClickSpin ==
    /\ ControlsReachable
    /\ ShowsSpin
    /\ IF SpinButtonDisabled THEN UNCHANGED vars ELSE handleSpin

\* the callback of the 1.5s timer set by the spin-signal effect; the effect
\* returns no cleanup, so the callback also runs after a teardown, where
\* React drops the state update of the unmounted component
PrizeTimer ==
    /\ pendingPrize > 0
    /\ pendingPrize' = pendingPrize - 1
    /\ prizeVisible' = IF mounted THEN TRUE ELSE prizeVisible
    /\ UNCHANGED <<appVars, pendingReveal, balls, nextId, prizeColor,
                   mounted, claimCount>>

\* a 2s timer whose callback gives up when the draw it belongs to was
\* interrupted
RevealTimer_OnlyWhileSpinning ==
    /\ pendingReveal > pendingPrize
    /\ pendingReveal' = pendingReveal - 1
    /\ gameState' = IF mounted /\ gameState = "SPINNING" THEN "RESULT"
                    ELSE gameState
    /\ UNCHANGED <<mounted, claimCount>>
    /\ UNCHANGED <<mode, fate, spinCount, fates, squadList, activeSquad,
                   exchangeOrder, exchangeIndex, resetTrigger, prizeVisible,
                   pendingPrize>>
    /\ GameSceneEffects

\* the callback of the 2s timer set by handleSpin; the 1.5s timer of the
\* same spin has fired before it.  Nothing clears the timer, so the callback
\* also runs after a teardown, where React drops the state update
RevealTimer ==
    /\ pendingReveal > pendingPrize
    /\ pendingReveal' = pendingReveal - 1
    /\ gameState' = IF mounted THEN "RESULT" ELSE gameState
    /\ UNCHANGED <<mounted, claimCount>>
    /\ UNCHANGED <<mode, fate, spinCount, fates, squadList, activeSquad,
                   exchangeOrder, exchangeIndex, resetTrigger, prizeVisible,
                   pendingPrize>>
    /\ GameSceneEffects

\* handleResult advancing the gift cursor in every mode
handleResult_AdvanceAlways(text) ==
    /\ fate' = text
    /\ gameState' = "IDLE"
    /\ activeSquad' = IF mode = "SQUAD" THEN FilterOut(activeSquad, text)
                      ELSE activeSquad
    /\ exchangeIndex' = exchangeIndex + 1
    /\ UNCHANGED <<fates, squadList>>

\* handleResult eliminating from the master roster as well
handleResult_FilterMaster(text) ==
    /\ fate' = text
    /\ gameState' = "IDLE"
    /\ activeSquad' = IF mode = "SQUAD" THEN FilterOut(activeSquad, text)
                      ELSE activeSquad
    /\ squadList' = IF mode = "SQUAD" THEN FilterOut(squadList, text)
                    ELSE squadList
    /\ exchangeIndex' = IF mode = "GIFT" THEN exchangeIndex + 1
                        ELSE exchangeIndex
    /\ UNCHANGED fates

\* handleResult that does not advance the gift cursor
handleResult_NoAdvance(text) ==
    /\ fate' = text
    /\ gameState' = "IDLE"
    /\ activeSquad' = IF mode = "SQUAD" THEN FilterOut(activeSquad, text)
                      ELSE activeSquad
    /\ exchangeIndex' = exchangeIndex
    /\ UNCHANGED <<fates, squadList>>

handleResult(text) ==
    /\ fate' = text
    /\ gameState' = "IDLE"
    /\ activeSquad' = IF mode = "SQUAD" THEN FilterOut(activeSquad, text)
                      ELSE activeSquad
    /\ exchangeIndex' = IF mode = "GIFT" THEN exchangeIndex + 1
                        ELSE exchangeIndex
    /\ UNCHANGED <<fates, squadList>>

\* the result pick without the sentinel: fateList[NaN] of an empty list
PrizeResults_NoSentinel ==
    IF fixedResult # Null THEN {fixedResult}
    ELSE IF Len(fateList) > 0 THEN {fateList[i] : i \in 1..Len(fateList)}
    ELSE {"undefined"}

\* the results the prize ball's onClick can pass to onPrizeClaim
PrizeResults ==
    IF fixedResult # Null THEN {fixedResult}
    ELSE IF Len(fateList) > 0 THEN {fateList[i] : i \in 1..Len(fateList)}
    ELSE {NO_TARGETS}

\* onClick of the prize ball
ClaimPrize ==
    /\ ControlsReachable
    /\ PrizeShown
    /\ \E f \in PrizeResults : handleResult(f)
    /\ prizeVisible' = FALSE
    /\ claimCount' = claimCount + 1
    /\ UNCHANGED mounted
    /\ UNCHANGED <<mode, spinCount, exchangeOrder, resetTrigger, pendingPrize,
                   pendingReveal>>
    /\ GameSceneEffects

\* onClick of the result modal
DismissFate ==
    /\ mounted
    /\ fate # Null
    /\ fate' = Null
    /\ UNCHANGED <<mounted, claimCount>>
    /\ UNCHANGED <<mode, gameState, spinCount, fates, squadList, activeSquad,
                   exchangeOrder, exchangeIndex, prizeColor, resetTrigger,
                   balls, prizeVisible, pendingPrize, pendingReveal, nextId>>

\* DevTools onRespawn (the panel is shown once dev mode is enabled)
Respawn ==
    /\ mounted
    /\ resetTrigger < MaxResets
    /\ resetTrigger' = resetTrigger + 1
    /\ UNCHANGED <<mounted, claimCount>>
    /\ UNCHANGED <<mode, gameState, fate, spinCount, fates, squadList,
                   activeSquad, exchangeOrder, exchangeIndex, prizeVisible,
                   pendingPrize, pendingReveal>>
    /\ GameSceneEffects

----------------------------------------------------------------------------
(* Handlers of FateEditor.  The editor is opened from the controls, so     *)
(* only while no result modal is shown, and covers the page while open.    *)

handleAddFate ==
    /\ ControlsReachable
    /\ Len(fates) < MaxFates
    /\ \E t \in FateTexts : fates' = Append(fates, t)
    /\ UNCHANGED <<mounted, claimCount>>
    /\ UNCHANGED <<mode, gameState, fate, spinCount, squadList, activeSquad,
                   exchangeOrder, exchangeIndex, resetTrigger, prizeVisible,
                   pendingPrize, pendingReveal>>
    /\ GameSceneEffects

handleDeleteFate ==
    /\ ControlsReachable
    /\ \E index \in 1..Len(fates) :
         fates' = SubSeq(fates, 1, index - 1)
                  \o SubSeq(fates, index + 1, Len(fates))
    /\ UNCHANGED <<mounted, claimCount>>
    /\ UNCHANGED <<mode, gameState, fate, spinCount, squadList, activeSquad,
                   exchangeOrder, exchangeIndex, resetTrigger, prizeVisible,
                   pendingPrize, pendingReveal>>
    /\ GameSceneEffects

\* the lines of the textarea, trimmed, without the empty ones
handleSquadTextChange ==
    /\ ControlsReachable
    /\ \E lines \in SeqsUpTo(Names, MaxRoster) : squadList' = lines
    /\ UNCHANGED <<mounted, claimCount>>
    /\ UNCHANGED <<mode, gameState, fate, spinCount, fates, activeSquad,
                   exchangeOrder, exchangeIndex, resetTrigger, prizeVisible,
                   pendingPrize, pendingReveal>>
    /\ GameSceneEffects

----------------------------------------------------------------------------
(* Teardown of the root that createRoot made: React unmounts App and       *)
(* GameScene and runs the cleanup functions of their effects.  Neither the *)
(* spin-signal effect nor handleSpin registers a cleanup for its timer, so *)
(* the pending timers stay pending.                                        *)

Unmount ==
    /\ mounted
    /\ mounted' = FALSE
    /\ UNCHANGED <<appVars, prizeColor, balls, prizeVisible, pendingPrize,
                   pendingReveal, nextId, claimCount>>

----------------------------------------------------------------------------

Next ==
    \/ toggleMode
    \/ handleReloadSquad
    \/ handleStartGift
    \/ handleResetGift
    \/ ClickSpin
    \/ PrizeTimer
    \/ RevealTimer
    \/ ClaimPrize
    \/ DismissFate
    \/ Respawn
    \/ handleAddFate
    \/ handleDeleteFate
    \/ handleSquadTextChange
    \/ Unmount

Spec == Init /\ [][Next]_vars

\* A gift exchange over a roster of pairwise distinct names: the state
\* after the editor has set the squad list and the mode was switched to
\* Gift (the population is the preview of the master roster), and the
\* steps of the exchange: start, spin, timers, claim, dismissal.
GiftInit ==
    /\ mode = "GIFT"
    /\ gameState = "IDLE"
    /\ fate = Null
    /\ spinCount = 0
    /\ fates = DEFAULT_FATES
    /\ squadList \in {sq \in SeqsUpTo(GiftNames, GiftRoster) :
                         /\ Len(sq) >= 2
                         /\ \A i, j \in 1..Len(sq) : sq[i] = sq[j] => i = j}
    /\ activeSquad = DEFAULT_SQUAD
    /\ exchangeOrder = <<>>
    /\ exchangeIndex = 0
    /\ prizeColor = "neonGold"
    /\ resetTrigger = 0
    /\ balls \in NewBalls(Len(squadList), 1)
    /\ prizeVisible = FALSE
    /\ pendingPrize = 0
    /\ pendingReveal = 0
    /\ nextId = Len(squadList) + 1
    /\ mounted = TRUE
    /\ claimCount = 0

GiftNext ==
    \/ handleStartGift
    \/ ClickSpin
    \/ PrizeTimer
    \/ RevealTimer
    \/ ClaimPrize
    \/ DismissFate

GiftSpec == GiftInit /\ [][GiftNext]_vars

\* The event loop runs the callback of every timer whose delay has elapsed
FairSpec == Spec /\ WF_vars(PrizeTimer) /\ WF_vars(RevealTimer)

TypeOK ==
    /\ mode \in {"FATE", "SQUAD", "GIFT"}
    /\ gameState \in {"IDLE", "SPINNING", "RESULT"}
    /\ pendingPrize <= pendingReveal

----------------------------------------------------------------------------
(* Steps that the properties below speak about.                            *)

\* a prize claim: the only step that sets fate
IsClaim == fate = Null /\ fate' # Null
\* the step in which the phase becomes RESULT
IsReveal == gameState # "RESULT" /\ gameState' = "RESULT"

BallIds(bs) == {bs[i].id : i \in 1..Len(bs)}

----------------------------------------------------------------------------
(* C1..C10                                                                 *)

\* C1: attribute continuity. Whenever the reveal makes the population sync
\* cut the tail ball, the colour of that ball is the prizeColor that the
\* prize ball is drawn with.
C1_AttributeContinuity ==
    [][(IsReveal /\ Len(balls') < Len(balls))
          => prizeColor' = balls[Len(balls)].color]_vars

\* C2: mutual exclusion. A click on the spin button while the phase is
\* SPINNING or RESULT changes neither the phase, nor spinCount, nor the
\* balls, and schedules no timer.
C2_SpinNoOpUnlessIdle ==
    [][(ClickSpin /\ gameState # "IDLE")
          => UNCHANGED <<gameState, spinCount, balls, pendingPrize,
                         pendingReveal>>]_vars

C2_Witness ==
    /\ gameState = "RESULT" /\ ControlsReachable /\ ShowsSpin
    /\ spinCount = 1 /\ pendingReveal = 0

\* C3: draws never overlap. The timers of two different spins are never
\* pending together: at most one 2s timer and one 1.5s timer are pending.
C3_DrawsNeverOverlap == pendingReveal <= 1 /\ pendingPrize <= 1

\* C4: population conservation. The number of balls equals the current
\* target count.
C4_PopulationConservation == Len(balls) = ballCount

\* C5: no incidental churn. A step without a reset keeps the first
\* min(m, n) balls as they are; a shrink only cuts the tail and a grow only
\* appends balls with fresh identifiers.
C5_NoIncidentalChurn ==
    [][resetTrigger' = resetTrigger =>
          LET m == Len(balls)
              n == Len(balls')
              k == Min(m, n)
          IN  /\ SubSeq(balls', 1, k) = SubSeq(balls, 1, k)
              /\ \A i \in (m + 1)..n :
                    /\ balls'[i].id \notin BallIds(balls)
                    /\ \A j \in (m + 1)..n : balls'[j].id = balls'[i].id => j = i
              /\ (n # m => n = Max(ballCountNext, 0))]_vars

C5_Witness ==
    /\ resetTrigger = 0 /\ mode = "FATE" /\ Len(balls) = FateBallCount
    /\ nextId > FateBallCount + 1

\* C6: squad elimination. A claim in Squad mode that names a member of the
\* roster shortens the active roster by exactly one entry.
C6_ExactlyOneEliminated ==
    [][(IsClaim /\ mode = "SQUAD" /\ fate' # NO_TARGETS)
          => Len(activeSquad') = Len(activeSquad) - 1]_vars

\* C7: the master rosters are changed by the editor only. Every other step
\* (spin, timers, claim, mode switch, reload, exchange start and reset,
\* respawn, dismissal) leaves fates and squadList as they are.
C7_MasterRostersUntouched ==
    [][(toggleMode \/ handleReloadSquad \/ handleStartGift \/ handleResetGift
        \/ ClickSpin \/ PrizeTimer \/ RevealTimer \/ ClaimPrize \/ IsClaim
        \/ DismissFate \/ Respawn)
          => UNCHANGED <<fates, squadList>>]_vars

C7_Witness ==
    /\ mode = "SQUAD" /\ fate \in Names /\ Len(activeSquad) < Len(squadList)
    /\ squadList = DEFAULT_SQUAD /\ fates = DEFAULT_FATES

\* C8: a squad reload sets the active roster to the master roster, name by
\* name, and regenerates the balls: resetTrigger changes and no ball of
\* the old population is kept.
C8_ReloadRestoresRoster ==
    [][handleReloadSquad =>
          /\ activeSquad' = squadList
          /\ squadList' = squadList
          /\ resetTrigger' # resetTrigger
          /\ BallIds(balls') \cap BallIds(balls) = {}
          /\ Len(balls') = Max(ballCountNext, 0)]_vars

C8_Witness ==
    /\ mode = "SQUAD" /\ gameState = "IDLE" /\ resetTrigger > 0
    /\ activeSquad = squadList /\ Len(activeSquad) = 2
    /\ activeSquad[1] = activeSquad[2]
    /\ Len(balls) = 2 /\ \A i \in 1..2 : balls[i].id > FateBallCount

\* C9: gift cycle. A successful start puts the cursor at 0 with an order
\* as long as the master roster; every claim in Gift mode with a started
\* exchange moves the cursor one further and keeps the order; currentGiver
\* is the participant at the cursor while the cursor is below N and none
\* from N on.
C9_GiftCycle ==
    [][/\ (handleStartGift /\ Len(squadList) >= 2) =>
             /\ exchangeIndex' = 0
             /\ Len(exchangeOrder') = Len(squadList)
             /\ currentGiver' = exchangeOrder'[1]
       /\ (IsClaim /\ mode = "GIFT" /\ Len(exchangeOrder) > 0) =>
             /\ exchangeIndex' = exchangeIndex + 1
             /\ exchangeOrder' = exchangeOrder
             /\ exchangeIndex' < Len(exchangeOrder)
                  => currentGiver' = exchangeOrder[exchangeIndex' + 1]
             /\ exchangeIndex' >= Len(exchangeOrder) => currentGiver' = Null
      ]_vars

C9_Witness ==
    /\ mode = "GIFT" /\ Len(exchangeOrder) >= 2
    /\ exchangeIndex = Len(exchangeOrder) /\ currentGiver = Null
    /\ fate # Null

\* C10: in Gift mode the result of a claim is the recipient
\* exchangeOrder[(cursor+1) mod N], with the cursor of before the claim.
C10_GiftResultIsFixed ==
    [][(IsClaim /\ mode = "GIFT") =>
          /\ Len(exchangeOrder) > 0
          /\ fate' = exchangeOrder[((exchangeIndex + 1) % Len(exchangeOrder)) + 1]
      ]_vars

----------------------------------------------------------------------------
(* C11..C20                                                                *)

\* C11: cursor invariant. In every state 0 <= exchangeIndex <=
\* exchangeOrder.length.
C11_CursorInRange ==
    exchangeIndex >= 0 /\ exchangeIndex <= Len(exchangeOrder)

\* C12: validation refusal. A click on START EXCHANGE with a master squad
\* roster of 0 or 1 entries changes nothing: exchangeOrder, exchangeIndex,
\* gameState, resetTrigger and the balls stay as they were.
C12_StartRefusedChangesNothing ==
    [][(handleStartGift /\ Len(squadList) < 2)
          => UNCHANGED <<exchangeOrder, exchangeIndex, gameState,
                         resetTrigger, balls, mode, activeSquad>>]_vars

C12_Witness ==
    /\ ControlsReachable /\ ShowsStartExchange /\ Len(squadList) = 1
    /\ gameState = "SPINNING" /\ Len(balls) = 1

\* C13: empty-domain sentinel. A claim with no fixed result and an empty
\* candidate list yields exactly "NO TARGETS" and returns the phase to IDLE.
C13_EmptyDomainSentinel ==
    [][(IsClaim /\ fixedResult = Null /\ Len(fateList) = 0)
          => fate' = NO_TARGETS /\ gameState' = "IDLE"]_vars

C13_Witness ==
    /\ fate = NO_TARGETS /\ gameState = "IDLE" /\ mode = "FATE"
    /\ fates = <<>> /\ ~prizeVisible

\* C14: in every state every name of the active squad roster is a name of
\* the master squad roster.
C14_ActiveWithinMaster ==
    \A i \in 1..Len(activeSquad) :
        \E j \in 1..Len(squadList) : squadList[j] = activeSquad[i]

\* The identifiers a toggle of the mode needs for new balls are left
ToggleHasIds ==
    LET m == nextMode(mode)
        active == IF m = "SQUAD" /\ Len(activeSquad) = 0
                  THEN squadList ELSE activeSquad
        target == currentBallCount(m, active, gameState,
                      IF m = "GIFT" THEN <<>> ELSE exchangeOrder,
                      IF m = "GIFT" THEN 0 ELSE exchangeIndex, squadList)
    IN  nextId + Max(target - Len(balls), 0) <= MaxId + 1

\* C15: mode cycling is the rotation Fate -> Squad -> Gift -> Fate. Every
\* toggle moves to the successor mode and leaves the phase alone, three
\* successors lead back to the starting mode, and the toggle is enabled in
\* every phase (whenever the controls can be clicked).
C15_ModeRotation ==
    /\ [][toggleMode =>
             /\ mode' = (CASE mode = "FATE" -> "SQUAD"
                           [] mode = "SQUAD" -> "GIFT"
                           [] mode = "GIFT" -> "FATE")
             /\ gameState' = gameState]_vars
    /\ [](nextMode(nextMode(nextMode(mode))) = mode)
    /\ []((ControlsReachable /\ ToggleHasIds) => ENABLED toggleMode)

\* back in Fate after toggles made in the RESULT phase: the balls cut by the
\* reveal in Squad mode were appended again on the way through Gift and Fate
C15_Witness ==
    /\ mode = "FATE" /\ gameState = "RESULT" /\ spinCount = 1
    /\ resetTrigger = 0 /\ squadList = DEFAULT_SQUAD
    /\ activeSquad = DEFAULT_SQUAD /\ nextId = FateBallCount + 3
    /\ Len(balls) = FateBallCount /\ balls[2].id = FateBallCount + 1

\* C16: a transition into Squad mode reloads the active roster from the
\* master roster if and only if it is empty; any other toggle, and an entry
\* into Squad with a non-empty active roster, leaves it as it was.
C16_ReloadOnlyWhenEmpty ==
    [][toggleMode =>
          activeSquad' = IF mode = "FATE" /\ Len(activeSquad) = 0
                         THEN squadList ELSE activeSquad]_vars

C16_Witness ==
    /\ mode = "SQUAD" /\ Len(activeSquad) = 1 /\ squadList = DEFAULT_SQUAD
    /\ resetTrigger = 0 /\ spinCount = 1 /\ gameState = "IDLE"
    /\ nextId = FateBallCount + 3

\* C17: every transition into Gift mode leaves the exchange not started
\* (exchangeOrder empty, exchangeIndex 0), and an empty exchangeOrder
\* becomes non-empty only by a start of the exchange.
C17_GiftEntryNotStarted ==
    [][/\ (toggleMode /\ mode = "SQUAD") =>
             mode' = "GIFT" /\ exchangeOrder' = <<>> /\ exchangeIndex' = 0
       /\ (exchangeOrder = <<>> /\ exchangeOrder' # <<>>) =>
             handleStartGift /\ mode = "GIFT"]_vars

\* in Gift again with no exchange, after an exchange was started during a
\* draw (the phase is IDLE with the 2s timer of the only spin pending)
C17_Witness ==
    /\ mode = "GIFT" /\ exchangeOrder = <<>> /\ exchangeIndex = 0
    /\ resetTrigger = 1 /\ spinCount = 1 /\ fate = Null
    /\ gameState = "IDLE" /\ pendingReveal = 1

IsPermutation(a, b) ==
    /\ Len(a) = Len(b)
    /\ \A x \in {a[i] : i \in 1..Len(a)} \cup {b[i] : i \in 1..Len(b)} :
          Cardinality({i \in 1..Len(a) : a[i] = x})
            = Cardinality({i \in 1..Len(b) : b[i] = x})

\* C18: a successful start of the exchange (N >= 2 names) sets
\* exchangeOrder to a permutation of the master roster, the cursor to 0 and
\* the phase to IDLE, and leaves the master roster as it was.
C18_StartShuffles ==
    [][(handleStartGift /\ Len(squadList) >= 2) =>
          /\ IsPermutation(exchangeOrder', squadList)
          /\ exchangeIndex' = 0
          /\ gameState' = "IDLE"
          /\ squadList' = squadList]_vars

C18_Witness ==
    /\ mode = "GIFT" /\ Len(exchangeOrder) = 2 /\ exchangeIndex = 0
    /\ exchangeOrder # squadList /\ IsPermutation(exchangeOrder, squadList)
    /\ gameState = "IDLE" /\ spinCount = 0

\* C19: a claim in Gift mode moves the cursor up by exactly one, and the
\* cursor goes up in no other step: a claim in Fate or Squad mode, a spin
\* and a timer leave it unchanged.
C19_CursorAdvancesOnGiftClaimOnly ==
    [][/\ (IsClaim /\ mode = "GIFT") => exchangeIndex' = exchangeIndex + 1
       /\ (IsClaim /\ mode # "GIFT") => exchangeIndex' = exchangeIndex
       /\ (ClickSpin \/ PrizeTimer \/ RevealTimer)
             => exchangeIndex' = exchangeIndex
       /\ exchangeIndex' > exchangeIndex => IsClaim /\ mode = "GIFT"]_vars

C19_Witness ==
    /\ mode = "GIFT" /\ Len(exchangeOrder) = 2 /\ exchangeIndex = 1
    /\ fate = exchangeOrder[2] /\ gameState = "IDLE"

\* C20: the phase changes only from IDLE to SPINNING by an accepted spin,
\* from SPINNING to RESULT by the 2s timer, and from RESULT to IDLE by a
\* claim.
C20_PhaseTransitions ==
    [][gameState' # gameState =>
          \/ gameState = "IDLE" /\ gameState' = "SPINNING"
             /\ spinCount' = spinCount + 1
          \/ gameState = "SPINNING" /\ gameState' = "RESULT"
             /\ pendingReveal' = pendingReveal - 1
          \/ gameState = "RESULT" /\ gameState' = "IDLE" /\ IsClaim]_vars

----------------------------------------------------------------------------
(* C21..C29                                                                *)

\* C21: in every state the target ball count is the per-mode derivation.
\* Fate: the Fate count in every phase. Squad: the size of the active
\* roster, one less while the phase is RESULT and the roster is non-empty.
\* Gift: the size of the master roster while no exchange has started, else
\* remaining = N - cursor, one less while the phase is RESULT and remaining
\* is positive.
C21_TargetCount ==
    LET anticipated(n) == IF gameState = "RESULT" /\ n > 0 THEN n - 1 ELSE n
    IN  ballCount =
          CASE mode = "FATE" -> FateBallCount
            [] mode = "SQUAD" -> anticipated(Len(activeSquad))
            [] mode = "GIFT" ->
                 IF exchangeOrder = <<>> THEN Len(squadList)
                 ELSE anticipated(Len(exchangeOrder) - exchangeIndex)

\* the last draw of a two-name exchange is revealed: nobody remains
C21_Witness ==
    /\ mounted /\ mode = "GIFT" /\ gameState = "RESULT"
    /\ Len(exchangeOrder) = 2 /\ exchangeIndex = 1
    /\ ballCount = 0 /\ balls = <<>> /\ spinCount = 2

\* C22: the ball set is regenerated as a whole only when resetTrigger
\* changes, which only a squad reload, a successful exchange start and the
\* dev-tools respawn do; then no old ball is kept. In every other step
\* (spin, timers, claim, mode switch, edits) each ball that stays in the
\* population keeps its place, identifier, position and colour.
C22_RegenerationOnlyOnReset ==
    [][/\ resetTrigger' # resetTrigger =>
             /\ handleReloadSquad \/ handleStartGift \/ Respawn
             /\ BallIds(balls') \cap BallIds(balls) = {}
       /\ (ClickSpin \/ PrizeTimer \/ RevealTimer \/ ClaimPrize \/ toggleMode)
             => resetTrigger' = resetTrigger
       /\ resetTrigger' = resetTrigger =>
             /\ \A i \in 1..Min(Len(balls), Len(balls')) : balls'[i] = balls[i]
             /\ \A i \in 1..Len(balls') :
                   balls'[i].id \in BallIds(balls) => i <= Len(balls)
      ]_vars

\* a reveal in Squad mode after a switch from Fate: two target-count
\* changes, and the ball that is left is the first ball of the mount
C22_Witness ==
    /\ mounted /\ mode = "SQUAD" /\ gameState = "RESULT" /\ resetTrigger = 0
    /\ spinCount = 1 /\ Len(balls) = 1 /\ balls[1].id = 1

\* C23: in every state the target count is at least 0, and no ball is left
\* in the population when the target is 0 or less.
C23_TargetClamped ==
    /\ ballCount >= 0
    /\ ballCount <= 0 => balls = <<>>

\* the second half of C23 alone: an empty population whenever the target
\* is 0 or less
C23_EmptyAtZero == ballCount <= 0 => balls = <<>>

\* C24: the deferred reveal is never cancelled. While the tree is mounted,
\* a pending 2s timer leads to the phase RESULT and a pending 1.5s timer to
\* a visible prize, whatever happens in between; a pending timer goes away
\* only by firing, and when it fires it sets RESULT (makes the prize
\* visible) whatever the phase and the mode have become.
C24_RevealAlwaysFires ==
    /\ (mounted /\ pendingReveal > 0) ~> (gameState = "RESULT" \/ ~mounted)
    /\ (mounted /\ pendingPrize > 0) ~> (prizeVisible \/ ~mounted)
    /\ [][/\ (mounted /\ pendingReveal' < pendingReveal)
                => gameState' = "RESULT"
          /\ (mounted /\ pendingPrize' < pendingPrize) => prizeVisible'
         ]_vars

\* the reveal of a spin made in Squad mode, after a switch to Gift and a
\* start of the exchange while the draw was in flight
C24_Witness ==
    /\ mounted /\ gameState = "RESULT" /\ prizeVisible /\ mode = "GIFT"
    /\ Len(exchangeOrder) = 2 /\ spinCount = 1 /\ pendingReveal = 0
    /\ resetTrigger = 1

\* C25: after a teardown no timer callback runs: once the tree is
\* unmounted, no pending 1.5s or 2s timer fires.
C25_NoTimerAfterTeardown ==
    [][~mounted => UNCHANGED <<pendingPrize, pendingReveal>>]_vars

\* pairwise distinct entries
Distinct(s) == \A i, j \in 1..Len(s) : s[i] = s[j] => i = j
Range(s) == {s[i] : i \in 1..Len(s)}
\* the recipient of the giver at the 0-based cursor i: order[(i+1) mod N]
Recipient(order, i) == order[((i + 1) % Len(order)) + 1]
\* the recipient of the participant x
RecipientOf(order, x) ==
    Recipient(order, (CHOOSE i \in 1..Len(order) : order[i] = x) - 1)
\* the participants met in k steps from x along giver -> recipient
RECURSIVE Chain(_, _, _)
Chain(order, x, k) ==
    IF k = 0 THEN {}
    ELSE {x} \cup Chain(order, RecipientOf(order, x), k - 1)
\* the pairs (order[i], order[(i+1) mod N]), i = 0..N-1, are one cycle
SingleCycle(order) ==
    LET N == Len(order)
    IN  /\ \A x \in Range(order) :
              /\ Cardinality({i \in 0..(N - 1) : order[i + 1] = x}) = 1
              /\ Cardinality({i \in 0..(N - 1) : Recipient(order, i) = x}) = 1
        /\ \A i \in 0..(N - 1) : Recipient(order, i) # order[i + 1]
        /\ Chain(order, order[1], N) = Range(order)
        /\ RecipientOf(order, Recipient(order, N - 2)) = order[1]

\* C26: an exchange over N >= 2 pairwise distinct names is a single cycle.
\* The order a start produces makes every participant giver exactly once
\* and recipient exactly once, nobody their own recipient, all in one
\* cycle; and every claim at a cursor i < N shows the giver order[i] and
\* yields the recipient order[(i+1) mod N], keeping the order.
C26_SingleCycle ==
    [][/\ (handleStartGift /\ Len(squadList) >= 2 /\ Distinct(squadList))
             => SingleCycle(exchangeOrder')
       /\ (/\ IsClaim /\ mode = "GIFT" /\ Len(exchangeOrder) >= 2
           /\ Distinct(exchangeOrder) /\ exchangeIndex < Len(exchangeOrder))
             => /\ currentGiver = exchangeOrder[exchangeIndex + 1]
                /\ fate' = Recipient(exchangeOrder, exchangeIndex)
                /\ fate' # currentGiver
                /\ exchangeOrder' = exchangeOrder
                /\ exchangeIndex' = exchangeIndex + 1
      ]_vars

\* a completed exchange of three distinct names in an order that is not
\* the roster's: the last claim wrapped around to the first participant
C26_Witness ==
    /\ mode = "GIFT" /\ Len(exchangeOrder) = 3 /\ Distinct(exchangeOrder)
    /\ exchangeOrder # squadList
    /\ exchangeIndex = 3 /\ fate = exchangeOrder[1]
    /\ claimCount = 3 /\ spinCount = 3 /\ pendingReveal = 0

\* C27: the game is never stuck in the reveal phase. In every state of the
\* mounted page where the phase is RESULT and no timer is pending, the
\* prize ball is visible, so that it can be claimed.
C27_NeverStuckInReveal ==
    (mounted /\ gameState = "RESULT" /\ pendingPrize = 0 /\ pendingReveal = 0)
        => prizeVisible

\* C28: in every state the number of prize claims made so far is at most
\* the number of accepted spins. A claim needs a visible prize and hides it
\* again, and the prize becomes visible only when the 1.5s timer of a spin
\* fires.
C28_ClaimsAtMostSpins ==
    /\ [](claimCount <= spinCount)
    /\ [][/\ claimCount' # claimCount =>
                /\ claimCount' = claimCount + 1
                /\ prizeVisible /\ ~prizeVisible'
                /\ spinCount' = spinCount
          /\ (~prizeVisible /\ prizeVisible') =>
                /\ pendingPrize' = pendingPrize - 1
                /\ claimCount' = claimCount
          /\ pendingPrize' > pendingPrize =>
                /\ spinCount' = spinCount + 1
                /\ pendingPrize' = pendingPrize + 1
                /\ ~prizeVisible'
         ]_vars

\* every accepted spin was claimed
C28_Witness ==
    /\ claimCount = MaxSpins /\ spinCount = MaxSpins /\ ~prizeVisible
    /\ pendingPrize = 0 /\ pendingReveal = 0 /\ gameState = "IDLE"

\* C29: a prize claim never changes the ball population. For a claim in
\* Squad mode or in a started Gift exchange, the target count of the RESULT
\* state before the claim is the target count of the IDLE state after it,
\* and the balls stay as they are.
C29_ClaimKeepsPopulation ==
    [][(/\ IsClaim
        /\ mode = "SQUAD" \/ (mode = "GIFT" /\ Len(exchangeOrder) > 0))
          => /\ ballCountNext = ballCount
             /\ balls' = balls]_vars

\* C29 for claims of a name that occurs once in the active roster, and for
\* Gift claims below Complete
C29_ClaimKeepsPopulationUnique ==
    [][(/\ IsClaim
        /\ \/ /\ mode = "SQUAD"
              /\ Cardinality({i \in 1..Len(activeSquad) :
                                 activeSquad[i] = fate'}) <= 1
           \/ /\ mode = "GIFT" /\ Len(exchangeOrder) > 0
              /\ exchangeIndex < Len(exchangeOrder))
          => /\ ballCountNext = ballCount
             /\ balls' = balls]_vars

====
